---- MODULE Spec2Model ----
(***************************************************************************)
(* Capture orchestration of photo-turntable: the turntable worker          *)
(* (app/worker/worker_turntable.rs), the camera worker                     *)
(* (app/worker/worker_camera.rs), the channels that connect them           *)
(* (app/mod.rs) and the control surface that feeds their command queues.   *)
(***************************************************************************)
EXTENDS Integers, Sequences, FiniteSets, TLC

\* ------------------------------------------------------------------ bounds
\* Largest rotation_steps / tilt_steps of the job of a session.
MaxRot == 2
MaxTilt == 2
\* Ring size of the camera-state broadcast (the program allocates 100 slots,
\* app/mod.rs:114; the model scales the ring down so that lag is reachable).
BroadcastCap == 2
\* Commands the control surface sends to the two workers during a session, and
\* how many of them may be Step.
MaxCmds == 6
MaxStepCmds == 1
\* Largest magnitude, in eighths, of the f32 arguments rendered by to_string.
MaxEighths == 16
\* Items sent to the pipeline pools altogether, and the largest seq they carry.
MaxItems == 2
MaxSeq == 1

VARIABLES
    job,        \* TurntableSteppingJob of the session: [rotation_steps, tilt_steps]
    state,      \* TurntableWorker::run local `state`: [kind, rotation_step, tilt_step]
    table,      \* TurntableWorker.table is Some
    ttPc,       \* position of the turntable worker
    ttCall,     \* pending capture_step call: [from, ctx, seq, req]
    cmd_rx,     \* turntable command queue (unbounded mpsc)
    state_tx,   \* last state the turntable worker published
    camState,   \* CameraWorkerStateData.state: [kind, seq]
    camera,     \* CameraWorker.camera is Some
    camPc,      \* position of the camera worker
    camCur,     \* CaptureImage being handled by the camera worker
    camera_cmd, \* camera command queue (unbounded mpsc)
    camera_state_rx, \* broadcast slots not yet received by the turntable worker
    lagged,     \* the turntable worker's receiver has lost slots
    imagepath_tx,    \* ImageHandles sent on the image channel
    budget,     \* commands the control surface may still send: [cmds, step]
    camRes,     \* history: outcome of the capture the camera worker's last step resolved
    camLost,    \* history: a ConnectToCamera failed since the last one that succeeded
    ttRes,      \* history: outcome of the driver call the turntable worker's last step returned from
    ttPub,      \* history: the turntable worker's last step ended with run's state_tx.send(state)
    reqId,      \* history: number of CaptureImage sent by the turntable worker
    run,        \* history of the current stepping sequence
    command,    \* turntable::Command handed to to_string: [variant, arg]
    wire,       \* the String to_string returned for it, as a sequence of characters
    rx,         \* per pool: items in its intake channel (camera_imagepath_rx, job_rx)
    rx_open,    \* per pool: a sender of its intake channel is alive
    join_set,   \* per pool: the units in its JoinSet, by spawn index
    poolPc,     \* per pool: "intake", "joining" or "returned"
    spawned,    \* per pool: the item of each unit it spawned, in spawn order
    outcome,    \* per pool: each unit's "running", "ok", "failed" or "panicked"
    image_tx,   \* ImagePreviews sent by the units of image_loader
    copies      \* history: std::fs::copy calls of the units of image_exporter

vars == <<job, state, table, ttPc, ttCall, cmd_rx, state_tx, camState, camera,
          camPc, camCur, camera_cmd, camera_state_rx, lagged, imagepath_tx,
          budget, camRes, camLost, ttRes, ttPub, reqId, run, command, wire,
          rx, rx_open, join_set, poolPc, spawned, outcome, image_tx, copies>>

\* The turntable worker's and the camera worker's own variables.
ttVars == <<state, table, ttPc, ttCall, cmd_rx, state_tx, ttRes, ttPub>>
camVars == <<camState, camera, camPc, camCur, camRes, camLost>>

\* The variables of the wire encoding and of the image pipeline, which no
\* step of the turntable worker, the camera worker or the control surface
\* touches.
wireVars == <<command, wire>>
poolVars == <<rx, rx_open, join_set, poolPc, spawned, outcome, image_tx, copies>>
asideVars == <<wireVars, poolVars>>

\* The variables of the capture session: workers, channels, control surface.
sessionVars == <<job, ttVars, camVars, camera_cmd, camera_state_rx, lagged,
                 imagepath_tx, budget, reqId, run>>

\* ------------------------------------------------- TurntableSteppingState
SteppingState(r, t) == [rotation_step |-> r, tilt_step |-> t]

overall_step(s) == (job.rotation_steps * s.tilt_step) + s.rotation_step

total_steps == job.rotation_steps * job.tilt_steps

\* progress: the quotient (overall_step + 1) / total_steps, kept as its two
\* terms.
progress(s) == [num |-> overall_step(s) + 1, den |-> total_steps]

\* Number of values of u16, the type of the step counts.
U16 == 65536

\* done that tests the tilt level only.
done_tilt_only(s) == s.tilt_step >= job.tilt_steps - 1

\* done, as a build without overflow checks computes it: `- 1` wraps on u16.
done(s) ==
    /\ s.tilt_step >= (job.tilt_steps - 1) % U16
    /\ s.rotation_step >= (job.rotation_steps - 1) % U16

\* ----------------------------------------------------- TurntableWorkerState
Plain(k) == [kind |-> k, rotation_step |-> 0, tilt_step |-> 0]
Uninitialised == Plain("Uninitialised")
Connecting == Plain("Connecting")
Connected == Plain("Connected")
ReturningToResetPosition == Plain("ReturningToResetPosition")
Stepping(s) == [kind |-> "Stepping", rotation_step |-> s.rotation_step,
                tilt_step |-> s.tilt_step]
Paused(s) == [kind |-> "Paused", rotation_step |-> s.rotation_step,
              tilt_step |-> s.tilt_step]
SteppingOf(st) == SteppingState(st.rotation_step, st.tilt_step)
IsStepping(st) == st.kind \in {"Stepping", "Paused"}

TurntableWorkerCommand ==
    {"Connect", "Disconnect", "ResetPosition", "Step", "ResumeStepping",
     "PauseStepping"}

\* -------------------------------------------------------- CameraWorkerState
CamPlain(k) == [kind |-> k, seq |-> 0]
Capturing(seq) == [kind |-> "Capturing", seq |-> seq]

\* A slot of the broadcast: the state plus, as history, the number of the
\* turntable worker's request it answers (0: none) and the number of requests
\* the turntable worker had sent when it was published.
Slot(cs, req) == [kind |-> cs.kind, seq |-> cs.seq, req |-> req, at |-> reqId]

\* CameraWorkerCommand; req and during are history (the request number of the
\* turntable worker, 0 for the control surface; sent while a capture ran).
CameraCmd(k, seq, req) ==
    [kind |-> k, seq |-> seq, req |-> req, during |-> camPc = "capturing"]
NoCmd == [kind |-> "None", seq |-> 0, req |-> 0, during |-> FALSE]

NoCall == [from |-> SteppingState(0, 0), ctx |-> "none", seq |-> 0, req |-> 0]

NoRun == [active |-> FALSE, sent |-> <<>>, ok |-> 0, fail |-> FALSE,
          paused |-> FALSE, camBad |-> FALSE, horiz |-> 0, tilt |-> 0,
          firstReq |-> 0, last |-> "None", midStep |-> FALSE, manual |-> FALSE]

\* ------------------------------------------------------------ broadcast
\* broadcast::Sender::send as seen by the turntable worker's receiver: a full
\* ring overwrites its oldest slot and leaves the receiver lagged.
Push(q, m) == IF Len(q) < BroadcastCap THEN Append(q, m) ELSE Append(Tail(q), m)

\* CameraWorkerStateData::update
update(new_state, req) ==
    /\ camState' = new_state
    /\ camera_state_rx' = Push(camera_state_rx, Slot(new_state, req))
    /\ lagged' = (lagged \/ Len(camera_state_rx) >= BroadcastCap)

\* History: the camera did not fully serve request req of the current sequence.
CamBad(req) ==
    IF req > 0 /\ req >= run.firstReq
    THEN [run EXCEPT !.camBad = TRUE] ELSE run

\* ------------------------------------------------------------ camera worker
\* CameraWorker::run, first statement.
CamStart ==
    /\ camPc = "start"
    /\ update(CamPlain("Disconnected"), 0)
    /\ camPc' = "idle"
    /\ UNCHANGED <<job, asideVars, ttVars, camera, camCur, camRes, camLost, camera_cmd, imagepath_tx,
                   budget, reqId, run>>

\* A guard that accepts a capture in Ready only.
CanCapture_ready_only == camState.kind = "Ready" /\ camera

\* A guard that accepts a capture in any state once a camera handle is held.
CanCapture_any_state == camera

\* The guard of the CaptureImage arm.
CanCapture == camState.kind \in {"Ready", "Failed"} /\ camera

\* CameraWorker::run dequeues a command and handles it up to its driver call.
CamRecv ==
    /\ camPc = "idle"
    /\ camera_cmd # <<>>
    /\ LET cmd == Head(camera_cmd) IN
       /\ camera_cmd' = Tail(camera_cmd)
       /\ CASE cmd.kind = "ListCameras" ->
                 /\ update(CamPlain("GettingCameraList"), 0)
                 /\ camPc' = "listing"
                 /\ UNCHANGED <<camCur, run>>
            [] cmd.kind = "ConnectToCamera" ->
                 /\ update(CamPlain("CameraConnecting"), 0)
                 /\ camPc' = "connecting"
                 /\ UNCHANGED <<camCur, run>>
            [] cmd.kind = "CaptureImage" /\ CanCapture ->
                 /\ update(Capturing(cmd.seq), cmd.req)
                 /\ camPc' = "capturing"
                 /\ camCur' = cmd
                 /\ UNCHANGED run
            [] cmd.kind = "CaptureImage" /\ ~CanCapture ->
                 /\ run' = CamBad(cmd.req)
                 /\ UNCHANGED <<camState, camera_state_rx, lagged, camPc, camCur>>
    /\ camRes' = "none"
    /\ UNCHANGED <<job, asideVars, ttVars, camera, camLost, imagepath_tx, budget, reqId>>

\* ListCameras arm, after CameraContext::list_cameras returned.
CamListEnd ==
    /\ camPc = "listing"
    /\ \E ok \in BOOLEAN :
          update(CamPlain(IF ok THEN "CamerasListed" ELSE "Disconnected"), 0)
    /\ camPc' = "idle"
    /\ UNCHANGED <<job, asideVars, ttVars, camera, camCur, camRes, camLost, camera_cmd, imagepath_tx,
                   budget, reqId, run>>

\* ConnectToCamera arm, after CameraSpec::connect returned.
CamConnectEnd ==
    /\ camPc = "connecting"
    /\ \E ok \in BOOLEAN :
          /\ update(CamPlain(IF ok THEN "Ready" ELSE "Disconnected"), 0)
          /\ camera' = (IF ok THEN TRUE ELSE camera)
          /\ camLost' = ~ok
    /\ camPc' = "idle"
    /\ UNCHANGED <<job, asideVars, ttVars, camCur, camRes, camera_cmd, imagepath_tx,
                   budget, reqId, run>>

\* A resolution in which a failed rename ends in Failed.
Resolved_rename_fails(res) == CamPlain(IF res = "ok" THEN "Ready" ELSE "Failed")

\* A resolution in which a failed rename publishes the capture once more.
Resolved_rename_unresolved(res) ==
    IF res = "rename" THEN Capturing(camCur.seq)
    ELSE CamPlain(IF res = "failed" THEN "Failed" ELSE "Ready")

\* The state the CaptureImage arm publishes once the capture resolved.
Resolved(res) == CamPlain(IF res = "failed" THEN "Failed" ELSE "Ready")

\* CaptureImage arm, after Camera::capture returned and the rename was tried:
\* "ok" publishes Ready and goes on to send the handle, "rename" publishes
\* Ready without a handle, "failed" publishes Failed.
CamCaptureEnd ==
    /\ camPc = "capturing"
    /\ \E res \in {"ok", "rename", "failed"} :
          /\ update(Resolved(res), camCur.req)
          /\ camPc' = (IF res = "ok" THEN "emit" ELSE "idle")
          /\ camCur' = (IF res = "ok" THEN camCur ELSE NoCmd)
          /\ run' = (IF res = "ok" THEN run ELSE CamBad(camCur.req))
          /\ camRes' = res
    /\ UNCHANGED <<job, asideVars, ttVars, camera, camLost, camera_cmd, imagepath_tx,
                   budget, reqId>>

\* An ImageHandle that takes seq from the published state.
ImageHandle_state_seq(cmd) == [seq |-> camState.seq, req |-> cmd.req]

\* ImageHandle { seq, path } of the capture of cmd (req is history).
ImageHandle(cmd) == [seq |-> cmd.seq, req |-> cmd.req]

\* imagepath_tx.send(ImageHandle { seq, path })
CamEmit ==
    /\ camPc = "emit"
    /\ imagepath_tx' = Append(imagepath_tx, ImageHandle(camCur))
    /\ camPc' = "idle"
    /\ camCur' = NoCmd
    /\ camRes' = "none"
    /\ UNCHANGED <<job, asideVars, ttVars, camState, camera, camLost, camera_cmd,
                   camera_state_rx, lagged, budget, reqId, run>>

\* --------------------------------------------------------- turntable worker
\* TurntableWorker::run, statements before the outer loop.
TWStart ==
    /\ ttPc = "start"
    /\ state_tx' = state
    /\ ttPub' = TRUE
    /\ ttPc' = "idle"
    /\ UNCHANGED <<job, asideVars, state, table, ttCall, cmd_rx, ttRes, camVars, camera_cmd,
                   camera_state_rx, lagged, imagepath_tx, budget,
                   reqId, run>>

\* sync_take_photo, `while let Ok(_) = try_recv() {}`: what stays in the
\* receiver. A lagged receiver answers the first try_recv with Err(Lagged).
Drain(q, lag) == IF lag THEN q ELSE <<>>

\* sync_take_photo up to its first recv().await: drain, then send CaptureImage.
StartSync(from, ctx) ==
    /\ camera_state_rx' = Drain(camera_state_rx, lagged)
    /\ lagged' = FALSE
    /\ reqId' = reqId + 1
    /\ camera_cmd' = Append(camera_cmd,
                            CameraCmd("CaptureImage", overall_step(from), reqId + 1))
    /\ ttCall' = [from |-> from, ctx |-> ctx, seq |-> overall_step(from),
                  req |-> reqId + 1]
    /\ ttPc' = "waitCapturing"
    /\ ttPub' = FALSE

\* A step that counts columns without wrapping to the next row.
step_once_no_wrap(from) == SteppingState(from.rotation_step + 1, from.tilt_step)

\* step_once: the stepping state after one successful motor advance.
step_once(from) ==
    LET new_rotation_step == from.rotation_step + 1 IN
    IF new_rotation_step % job.rotation_steps = 0
    THEN SteppingState(0, from.tilt_step + 1)
    ELSE SteppingState(new_rotation_step % job.rotation_steps, from.tilt_step)

\* step_once calls step_tilt for this step (with rotation_steps = 0 it never
\* gets to the match: step_horizontal(0) fails or does not return).
TiltsOn(from) ==
    /\ job.rotation_steps # 0
    /\ (from.rotation_step + 1) % job.rotation_steps = 0

\* A job with a step count of 0: step_horizontal(0) sleeps for u64::MAX ms and
\* `% rotation_steps` divides by zero; `tilt_steps - 1` in done overflows.
NeverReturns == job.rotation_steps = 0
DoneOverflows == job.tilt_steps = 0

\* capture_step without the done() test on from_state.
capture_step_ok_no_done(from) == Stepping(step_once(from))

\* capture_step, Ok result.
capture_step_ok(from) ==
    IF done(from) THEN Connected ELSE Stepping(step_once(from))

\* A handle_command that gives up the sequence when capture_step fails.
capture_step_err_to_connected(ctx, from, st) ==
    IF ctx = "inner" THEN Paused(from) ELSE Connected

\* The state the caller of capture_step keeps on Err: handle_command (Step,
\* ResumeStepping) keeps state.clone(), the inner loop of run takes the
\* Paused state carried by the error.
capture_step_err(ctx, from, st) ==
    IF ctx = "inner" THEN Paused(from) ELSE st

\* A pause that snapshots the position after the coming step.
pause_stepping_ahead(st) ==
    IF st.kind = "Stepping" THEN Paused(step_once(SteppingOf(st))) ELSE st

\* handle_command, PauseStepping arm.
pause_stepping(st) ==
    IF st.kind = "Stepping" THEN Paused(SteppingOf(st)) ELSE st

\* A run that publishes a state only when it differs from the one it had.
Finish_changes_only(st) ==
    /\ state' = st
    /\ state_tx' = (IF st # state THEN st ELSE state_tx)
    /\ ttPub' = (st # state)
    /\ ttPc' = (IF st.kind = "Stepping" THEN "inner" ELSE "idle")
    /\ ttCall' = NoCall

\* A run whose inner loop goes on with a Paused state as with a Stepping one.
Finish_retries_paused(st) ==
    /\ state' = st
    /\ state_tx' = st
    /\ ttPub' = TRUE
    /\ ttPc' = (IF IsStepping(st) THEN "inner" ELSE "idle")
    /\ ttCall' = NoCall

\* run: assign and publish the state, then the test at the top of the inner loop.
Finish(st) ==
    /\ state' = st
    /\ state_tx' = st
    /\ ttPub' = TRUE
    /\ ttPc' = (IF st.kind = "Stepping" THEN "inner" ELSE "idle")
    /\ ttCall' = NoCall

\* History: the sequence is over once the worker leaves Stepping and Paused;
\* last is the kind of state the latest capture_step left the worker in.
RunEnds(st, r) == [r EXCEPT !.active = (r.active /\ IsStepping(st))]
StepReturns(st, r) == [RunEnds(st, r) EXCEPT !.last = st.kind]

\* run, outer loop: cmd_rx.recv().await, then handle_command up to its first
\* await on another component (the driver, the camera).
TWRecv ==
    /\ ttPc = "idle"
    /\ cmd_rx # <<>>
    /\ LET cmd == Head(cmd_rx) IN
       /\ cmd_rx' = Tail(cmd_rx)
       /\ CASE cmd = "Connect" ->
                 /\ state_tx' = Connecting
                 /\ ttPub' = FALSE
                 /\ ttPc' = "connecting"
                 /\ UNCHANGED <<state, table, ttCall, camera_cmd, camera_state_rx,
                                lagged, reqId, run>>
            [] cmd = "Disconnect" ->
                 /\ table' = FALSE
                 /\ Finish(Uninitialised)
                 /\ run' = RunEnds(Uninitialised, run)
                 /\ UNCHANGED <<camera_cmd, camera_state_rx, lagged, reqId>>
            [] cmd = "ResetPosition" /\ table ->
                 /\ state_tx' = ReturningToResetPosition
                 /\ ttPub' = FALSE
                 /\ ttPc' = "resetting"
                 /\ UNCHANGED <<state, table, ttCall, camera_cmd, camera_state_rx,
                                lagged, reqId, run>>
            [] cmd = "ResetPosition" /\ ~table ->
                 /\ Finish(Connected)
                 /\ run' = RunEnds(Connected, run)
                 /\ UNCHANGED <<table, camera_cmd, camera_state_rx, lagged, reqId>>
            [] cmd = "Step" /\ state.kind = "Connected" ->
                 /\ StartSync(SteppingState(0, 0), "step")
                 /\ run' = [NoRun EXCEPT !.active = TRUE, !.sent = <<0>>,
                                         !.firstReq = reqId + 1,
                                         !.manual = run.manual]
                 /\ UNCHANGED <<state, table, state_tx>>
            [] cmd = "ResumeStepping" /\ state.kind = "Paused" ->
                 /\ StartSync(SteppingOf(state), "resume")
                 /\ run' = [run EXCEPT
                              !.sent = Append(@, overall_step(SteppingOf(state)))]
                 /\ UNCHANGED <<state, table, state_tx>>
            [] cmd = "PauseStepping" ->
                 /\ Finish(pause_stepping(state))
                 /\ run' = [run EXCEPT !.paused = (@ \/ state.kind = "Stepping")]
                 /\ UNCHANGED <<table, camera_cmd, camera_state_rx, lagged, reqId>>
            [] OTHER ->
                 /\ Finish(state)
                 /\ UNCHANGED <<table, camera_cmd, camera_state_rx, lagged, reqId,
                                run>>
    /\ ttRes' = "none"
    /\ UNCHANGED <<job, asideVars, camVars, imagepath_tx, budget>>

\* A Connect arm that ignores the result of configure.
ConnectResult_configure_ignored(res) ==
    IF res = "connect" THEN Uninitialised ELSE Connected

\* The state the Connect arm returns: res is "ok", or the call that failed.
ConnectResult(res) == IF res = "ok" THEN Connected ELSE Uninitialised

\* handle_command, Connect arm, after T::connect and configure returned.
TWConnectEnd ==
    /\ ttPc = "connecting"
    /\ \E res \in {"ok", "connect", "configure"} :
          /\ table' = (IF res = "ok" THEN TRUE ELSE table)
          /\ Finish(ConnectResult(res))
          /\ run' = RunEnds(ConnectResult(res), run)
          /\ ttRes' = res
    /\ UNCHANGED <<job, asideVars, cmd_rx, camVars, camera_cmd, camera_state_rx, lagged,
                   imagepath_tx, budget, reqId>>

\* handle_command, ResetPosition arm, after reset_pos returned: unwrap()
\* panics on Err and the worker is gone.
TWResetEnd ==
    /\ ttPc = "resetting"
    /\ \E ok \in BOOLEAN :
          /\ IF ok
             THEN /\ Finish(Connected)
                  /\ run' = RunEnds(Connected, run)
             ELSE /\ ttPc' = "panicked"
                  /\ ttPub' = FALSE
                  /\ UNCHANGED <<state, state_tx, ttCall, run>>
          /\ ttRes' = (IF ok THEN "ok" ELSE "reset")
    /\ UNCHANGED <<job, asideVars, table, cmd_rx, camVars, camera_cmd, camera_state_rx,
                   lagged, imagepath_tx, budget, reqId>>

\* capture_step returned Err: the caller's state, published by run.
CaptureFailed ==
    LET st == capture_step_err(ttCall.ctx, ttCall.from, state) IN
    /\ Finish(st)
    /\ run' = [StepReturns(st, run) EXCEPT !.fail = TRUE]

\* broadcast::Receiver::recv: "lagged", "empty" or the oldest slot.
RecvKind == IF lagged THEN "lagged"
            ELSE IF camera_state_rx = <<>> THEN "empty" ELSE "slot"

Recv ==
    /\ RecvKind # "empty"
    /\ lagged' = FALSE
    /\ camera_state_rx' = (IF lagged THEN camera_state_rx ELSE Tail(camera_state_rx))

\* sync_take_photo, first loop: leaves on Capturing with the requested seq.
IsOwnCapturing(m, seq) == m.kind = "Capturing" /\ m.seq = seq

TWWaitCapturing ==
    /\ ttPc = "waitCapturing"
    /\ Recv
    /\ ttPc' = (IF RecvKind = "slot" /\ IsOwnCapturing(Head(camera_state_rx), ttCall.seq)
                THEN "waitExit" ELSE "waitCapturing")
    /\ UNCHANGED <<job, asideVars, state, table, ttCall, cmd_rx, state_tx, ttRes, ttPub,
                   camVars, camera_cmd, imagepath_tx, budget, reqId, run>>

\* sync_take_photo, second loop: "again" on Capturing, "ok" on Ready, "err" on
\* Failed and on everything else (the loop ends, Err("Something funny")).
ExitKind(k) == IF k = "Capturing" THEN "again"
               ELSE IF k = "Ready" THEN "ok" ELSE "err"

TWWaitExit ==
    /\ ttPc = "waitExit"
    /\ Recv
    /\ LET res == IF RecvKind = "lagged" THEN "err"
                  ELSE ExitKind(Head(camera_state_rx).kind) IN
       CASE res = "again" -> UNCHANGED <<state, table, ttPc, ttCall, state_tx,
                                         ttPub, run>>
         [] res = "ok" -> /\ ttPc' = "motor"
                          /\ UNCHANGED <<state, table, ttCall, state_tx, ttPub, run>>
         [] res = "err" -> /\ CaptureFailed
                           /\ UNCHANGED table
    /\ UNCHANGED <<job, asideVars, cmd_rx, ttRes, camVars, camera_cmd, imagepath_tx, budget,
                   reqId>>

\* capture_step after sync_take_photo returned Ok: step_once with the outcome
\* of its driver calls, then the result is assigned and published by the caller.
\* With a step count of 0 the worker is lost when step_once does not return or
\* panics, and when done overflows in a build that checks overflow (checked).
\* The tilt level of a job with tilt_steps = 0 grows without end: it is
\* followed up to MaxTilt.
TWMotor ==
    /\ ttPc = "motor"
    /\ DoneOverflows => ttCall.from.tilt_step < MaxTilt
    /\ \E res \in {"ok", "horizontal", "tilt"}, checked \in BOOLEAN :
          /\ res = "tilt" => TiltsOn(ttCall.from)
          /\ checked => (table /\ res = "ok" /\ DoneOverflows /\ ~NeverReturns)
          /\ ttRes' = (IF table THEN res ELSE "no_table")
          /\ IF table /\ res = "ok"
             THEN IF NeverReturns \/ checked
                  THEN /\ ttPc' = "panicked"
                       /\ ttPub' = FALSE
                       /\ UNCHANGED <<state, state_tx, ttCall, run>>
                  ELSE LET st == capture_step_ok(ttCall.from) IN
                       /\ Finish(st)
                       /\ run' = [StepReturns(st, run) EXCEPT
                                    !.ok = @ + 1, !.horiz = @ + 1,
                                    !.tilt = @ + (IF TiltsOn(ttCall.from) THEN 1 ELSE 0)]
             ELSE LET st == capture_step_err(ttCall.ctx, ttCall.from, state) IN
                  /\ Finish(st)
                  /\ run' = [StepReturns(st, run) EXCEPT
                               !.fail = TRUE,
                               !.horiz = @ + (IF table /\ res = "tilt" THEN 1 ELSE 0),
                               !.tilt = @ + (IF table /\ res = "tilt" THEN 1 ELSE 0)]
    /\ UNCHANGED <<job, asideVars, table, cmd_rx, camVars, camera_cmd, camera_state_rx,
                   lagged, imagepath_tx, budget, reqId>>

\* An inner loop that never looks for a pause.
PauseRequested_ignored == FALSE

\* run, inner loop: try_recv returned Ok(PauseStepping).
PauseRequested == cmd_rx # <<>> /\ Head(cmd_rx) = "PauseStepping"

\* run, inner loop with state Stepping: try_recv; PauseStepping pauses, any
\* other command is consumed and the next capture_step starts.
TWInner ==
    /\ ttPc = "inner"
    /\ cmd_rx' = (IF cmd_rx = <<>> THEN cmd_rx ELSE Tail(cmd_rx))
    /\ IF PauseRequested
       THEN /\ Finish(pause_stepping(state))
            /\ run' = [run EXCEPT !.paused = TRUE]
            /\ UNCHANGED <<camera_cmd, camera_state_rx, lagged, reqId>>
       ELSE /\ StartSync(SteppingOf(state), "inner")
            /\ run' = [run EXCEPT
                         !.sent = Append(@, overall_step(SteppingOf(state)))]
            /\ UNCHANGED <<state, state_tx>>
    /\ ttRes' = "none"
    /\ UNCHANGED <<job, asideVars, table, camVars, imagepath_tx, budget>>

\* ---------------------------------------------------------- control surface
\* TurntableApp::update: the buttons that send a turntable command, enabled by
\* the last state drained from the turntable worker.
TableButton(cmd) ==
    CASE cmd = "Connect" -> state_tx.kind = "Uninitialised"
      [] cmd = "Disconnect" -> state_tx.kind \notin {"Uninitialised", "Connecting"}
      [] cmd = "ResetPosition" -> state_tx.kind \in {"Connected", "Stepping", "Paused"}
      [] cmd = "PauseStepping" -> state_tx.kind = "Stepping"
      [] cmd = "ResumeStepping" -> state_tx.kind = "Paused"
      [] cmd = "Step" -> state_tx.kind = "Connected"

UITable ==
    /\ budget.cmds > 0
    /\ \E cmd \in TurntableWorkerCommand :
          /\ TableButton(cmd)
          /\ cmd = "Step" => budget.step > 0
          /\ cmd_rx' = Append(cmd_rx, cmd)
          /\ budget' = [budget EXCEPT !.cmds = @ - 1,
                                      !.step = @ - (IF cmd = "Step" THEN 1 ELSE 0)]
          /\ run' = [run EXCEPT
                       !.midStep = (@ \/ (cmd = "PauseStepping" /\ ttCall # NoCall))]
    /\ UNCHANGED <<job, asideVars, state, table, ttPc, ttCall, state_tx, ttRes, ttPub,
                   camVars, camera_cmd, camera_state_rx, lagged, imagepath_tx,
                   reqId>>

\* TurntableApp::next_seq over the previews the control surface holds: any
\* handle sent so far may be the newest preview it shows, or it shows none.
NextSeqs == {0} \cup {imagepath_tx[i].seq + 1 : i \in DOMAIN imagepath_tx}

\* TurntableApp::update: the widgets that send a camera command, enabled by the
\* last camera state drained from the broadcast.
UICamera ==
    /\ budget.cmds > 0
    /\ \/ /\ camState.kind # "GettingCameraList"
          /\ camera_cmd' = Append(camera_cmd, CameraCmd("ListCameras", 0, 0))
          /\ UNCHANGED run
       \/ /\ camState.kind = "CamerasListed"
          /\ camera_cmd' = Append(camera_cmd, CameraCmd("ConnectToCamera", 0, 0))
          /\ UNCHANGED run
       \/ /\ camState.kind = "Ready"
          /\ \E seq \in NextSeqs :
                camera_cmd' = Append(camera_cmd, CameraCmd("CaptureImage", seq, 0))
          /\ run' = [run EXCEPT !.manual = TRUE]
    /\ budget' = [budget EXCEPT !.cmds = @ - 1]
    /\ UNCHANGED <<job, asideVars, ttVars, camVars, camera_state_rx, lagged, imagepath_tx,
                   reqId>>

\* ------------------------------------------------------- turntable::Command
\* An f32 argument: a finite value of magnitude mag / Den with its sign bit, an
\* infinity or not-a-number. An i8 argument is a finite value of Den 1.
Den == 256
F32(neg, mag) == [kind |-> "finite", neg |-> neg, mag |-> mag]
Inf(neg) == [kind |-> "inf", neg |-> neg, mag |-> 0]
NaN == [kind |-> "nan", neg |-> FALSE, mag |-> 0]
NoArg == [kind |-> "none", neg |-> FALSE, mag |-> 0]

Command(variant, arg) == [variant |-> variant, arg |-> arg]
NoCommand == Command("None", NoArg)

F32Variants == {"SetRotationSpeed", "SetTiltSpeed", "RotateBy", "TiltTo"}
UnitVariants == {"StopRotation", "ZeroRotation", "StopTilt", "ZeroTilt",
                 "QueryAngle"}
Variants == F32Variants \cup UnitVariants \cup {"ContinuousRotation"}

\* The string literal of each arm of to_string up to its argument or its ';'.
Prefix(variant) ==
    CASE variant = "SetRotationSpeed" ->
            <<"+", "C", "T", ",", "T", "U", "R", "N", "S", "P", "E", "E", "D", "=">>
      [] variant = "SetTiltSpeed" ->
            <<"+", "C", "R", ",", "T", "I", "L", "T", "S", "P", "E", "E", "D", "=">>
      [] variant = "RotateBy" ->
            <<"+", "C", "T", ",", "T", "U", "R", "N", "A", "N", "G", "L", "E", "=">>
      [] variant = "StopRotation" -> <<"+", "C", "T", ",", "S", "T", "O", "P">>
      [] variant = "ZeroRotation" -> <<"+", "C", "T", ",", "T", "O", "Z", "E", "R", "O">>
      [] variant = "ContinuousRotation" ->
            <<"+", "C", "T", ",", "T", "U", "R", "N", "C", "O", "N", "T", "I", "N",
              "U", "E", "=">>
      [] variant = "TiltTo" ->
            <<"+", "C", "R", ",", "T", "I", "L", "T", "V", "A", "L", "U", "E", "=">>
      [] variant = "StopTilt" -> <<"+", "C", "R", ",", "S", "T", "O", "P">>
      [] variant = "ZeroTilt" -> <<"+", "C", "R", ",", "T", "O", "Z", "E", "R", "O">>
      [] variant = "QueryAngle" ->
            <<"+", "Q", "T", ",", "C", "H", "A", "N", "G", "E", "A", "N", "G", "L", "E">>

Digits == <<"0", "1", "2", "3", "4", "5", "6", "7", "8", "9">>
DigitChar(d) == Digits[d + 1]

\* Display of an unsigned integer.
RECURSIVE Decimal(_)
Decimal(n) ==
    IF n < 10 THEN <<DigitChar(n)>>
    ELSE Decimal(n \div 10) \o <<DigitChar(n % 10)>>

\* n / d rounded to the nearest integer, ties to even, as the float formatter
\* rounds the exact value.
RoundHalfEven(n, d) ==
    LET q == n \div d
        r == n % d
    IN IF 2 * r < d THEN q
       ELSE IF 2 * r > d THEN q + 1
       ELSE IF q % 2 = 0 THEN q ELSE q + 1

Sign(x) == IF x.neg THEN <<"-">> ELSE <<>>

\* A "{:.2}" that cuts the value off after its second decimal.
Fixed2_truncating(x) ==
    CASE x.kind = "nan" -> <<"N", "a", "N">>
      [] x.kind = "inf" -> Sign(x) \o <<"i", "n", "f">>
      [] x.kind = "finite" ->
            LET h == (x.mag * 100) \div Den IN
            Sign(x) \o Decimal(h \div 100)
                    \o <<".", DigitChar((h % 100) \div 10), DigitChar(h % 10)>>

\* format!("{:.2}", x) of an f32.
Fixed2(x) ==
    CASE x.kind = "nan" -> <<"N", "a", "N">>
      [] x.kind = "inf" -> Sign(x) \o <<"i", "n", "f">>
      [] x.kind = "finite" ->
            LET h == RoundHalfEven(x.mag * 100, Den) IN
            Sign(x) \o Decimal(h \div 100)
                    \o <<".", DigitChar((h % 100) \div 10), DigitChar(h % 10)>>

\* format!("{}", dir) of an i8.
Display(x) == (IF x.mag = 0 THEN <<>> ELSE Sign(x)) \o Decimal(x.mag)

\* Command::to_string
to_string(c) ==
    CASE c.variant \in F32Variants -> Prefix(c.variant) \o Fixed2(c.arg) \o <<";">>
      [] c.variant = "ContinuousRotation" ->
            Prefix(c.variant) \o Display(c.arg) \o <<";">>
      [] c.variant \in UnitVariants -> Prefix(c.variant) \o <<";">>
      [] c.variant = "Custom" -> c.arg

\* The f32 arguments: every eighth up to MaxEighths, values of the tests and
\* of the driver (35.640625, 30, 30.5, 255/256, 1/256), both signs, and the
\* non-finite values.
Mags == {k * 32 : k \in 0..MaxEighths} \cup {1, 255, 7680, 7808, 9124}
F32Args ==
    {F32(n, m) : n \in BOOLEAN, m \in Mags} \cup {Inf(FALSE), Inf(TRUE), NaN}

\* Every i8.
I8(i) == [kind |-> "finite", neg |-> i < 0, mag |-> IF i < 0 THEN 0 - i ELSE i]
I8Args == {I8(i) : i \in -128..127}

CustomStrings ==
    { <<"+", "F", "O", "O", ",", "B", "A", "R", ";">>, <<"X">>, <<>>,
      <<"+", "C", "T", ",", "S", "T", "O", "P", ";", ";">> }

Commands ==
    {Command(v, a) : v \in F32Variants, a \in F32Args}
    \cup {Command("ContinuousRotation", a) : a \in I8Args}
    \cup {Command(v, NoArg) : v \in UnitVariants}
    \cup {Command("Custom", str) : str \in CustomStrings}

\* A call of Command::to_string.
Render ==
    /\ \E c \in Commands :
          /\ command' = c
          /\ wire' = to_string(c)
    /\ UNCHANGED <<sessionVars, poolVars>>

\* ----------------------------------------------------------- image pipeline
\* The two pools: image_loader decodes ImageHandles into ImagePreviews,
\* image_exporter copies the files of ExportJobs.
Pools == {"image_loader", "image_exporter"}

Paths == {"a.jpg", "b.jpg"}
Dirs == {"out"}
ImageHandles == [seq : 0..MaxSeq, path : Paths]
ExportJobs == [image_path : Paths, seq : 0..MaxSeq, output_directory : Dirs]
Items(p) == IF p = "image_loader" THEN ImageHandles ELSE ExportJobs

\* ImagePreview::load(seq, path) keeps the seq and the path it was given.
ImagePreview(handle) == [seq |-> handle.seq, path |-> handle.path]

\* output_directory.join(format!("image_{}", seq)).with_extension("jpg"):
\* the directory and the characters of the file name.
dest_path_of_source_name(j) ==
    [dir |-> j.output_directory, file |-> <<"i", "m", "a", "g", "e", "_", ".", "j", "p", "g">>]
dest_path(j) ==
    [dir |-> j.output_directory,
     file |-> <<"i", "m", "a", "g", "e", "_">> \o Decimal(j.seq)
                \o <<".", "j", "p", "g">>]

\* What a unit can end with: the loader's closure fails when the decode or
\* the send fails and may panic inside the decoder; the exporter's closure
\* ends after its copy returned Ok or Err.
Outcomes(p) ==
    IF p = "image_loader" THEN {"ok", "failed", "panicked"} ELSE {"ok", "failed"}

\* The items sent to a pool so far: those it spawned a unit for and those
\* still in its intake channel.
Sent(p) == Len(spawned[p]) + Len(rx[p])

\* A sender of the intake channel sends one more item.
PoolSend(p) ==
    /\ rx_open[p]
    /\ Sent("image_loader") + Sent("image_exporter") < MaxItems
    /\ \E item \in Items(p) : rx' = [rx EXCEPT ![p] = Append(@, item)]
    /\ UNCHANGED <<rx_open, join_set, poolPc, spawned, outcome, image_tx, copies>>

\* The last sender of the intake channel is dropped.
PoolClose(p) ==
    /\ rx_open[p]
    /\ rx_open' = [rx_open EXCEPT ![p] = FALSE]
    /\ UNCHANGED <<rx, join_set, poolPc, spawned, outcome, image_tx, copies>>

\* recv() returned Some(item): spawn_blocking one unit for it.
PoolRecv(p) ==
    /\ poolPc[p] = "intake"
    /\ rx[p] # <<>>
    /\ rx' = [rx EXCEPT ![p] = Tail(@)]
    /\ spawned' = [spawned EXCEPT ![p] = Append(@, Head(rx[p]))]
    /\ outcome' = [outcome EXCEPT ![p] = Append(@, "running")]
    /\ join_set' = [join_set EXCEPT ![p] = @ \cup {Len(spawned[p]) + 1}]
    /\ UNCHANGED <<rx_open, poolPc, image_tx, copies>>

\* recv() returned None: the channel is closed and empty.
PoolIntakeEnd(p) ==
    /\ poolPc[p] = "intake"
    /\ rx[p] = <<>>
    /\ ~rx_open[p]
    /\ poolPc' = [poolPc EXCEPT ![p] = "joining"]
    /\ UNCHANGED <<rx, rx_open, join_set, spawned, outcome, image_tx, copies>>

\* The loader's unit sends a preview only when both the decode and the send
\* succeeded.
Sends_on_failure(p, res) == p = "image_loader" /\ res \in {"ok", "failed"}
Sends(p, res) == p = "image_loader" /\ res = "ok"

\* The closure of one unit runs to its end on the blocking thread pool.
UnitFinish(p) ==
    \E i \in DOMAIN outcome[p], res \in Outcomes(p) :
      /\ outcome[p][i] = "running"
      /\ outcome' = [outcome EXCEPT ![p][i] = res]
      /\ image_tx' = IF Sends(p, res)
                       THEN Append(image_tx, ImagePreview(spawned[p][i]))
                       ELSE image_tx
      /\ copies' = IF p = "image_exporter"
                     THEN Append(copies, [from |-> spawned[p][i].image_path,
                                          to |-> dest_path(spawned[p][i]),
                                          ok |-> res = "ok"])
                     ELSE copies
      /\ UNCHANGED <<rx, rx_open, join_set, poolPc, spawned>>

\* join_next() returned Some for a unit that ended.
PoolJoin(p) ==
    /\ poolPc[p] = "joining"
    /\ \E i \in join_set[p] :
          /\ outcome[p][i] # "running"
          /\ join_set' = [join_set EXCEPT ![p] = @ \ {i}]
    /\ UNCHANGED <<rx, rx_open, poolPc, spawned, outcome, image_tx, copies>>

\* join_next() returned None: the pool's future completes.
CanReturn_while_running(p) == poolPc[p] = "joining"
CanReturn(p) == poolPc[p] = "joining" /\ join_set[p] = {}

PoolReturn(p) ==
    /\ CanReturn(p)
    /\ poolPc' = [poolPc EXCEPT ![p] = "returned"]
    /\ UNCHANGED <<rx, rx_open, join_set, spawned, outcome, image_tx, copies>>

PoolNext ==
    /\ \E p \in Pools :
          \/ PoolSend(p)
          \/ PoolClose(p)
          \/ PoolRecv(p)
          \/ PoolIntakeEnd(p)
          \/ UnitFinish(p)
          \/ PoolJoin(p)
          \/ PoolReturn(p)
    /\ UNCHANGED <<sessionVars, wireVars>>

\* ------------------------------------------------------------ specification
Jobs == [rotation_steps : 1..MaxRot, tilt_steps : 1..MaxTilt]

\* Step{job} as the command type allows it: step counts of 0 included.
StepJobs == [rotation_steps : 0..MaxRot, tilt_steps : 0..MaxTilt]

\* The workers and channels as TurntableApp::new leaves them.
Constructed ==
    /\ state = Uninitialised
    /\ table = FALSE
    /\ ttPc = "start"
    /\ ttCall = NoCall
    /\ cmd_rx = <<>>
    /\ state_tx = Uninitialised
    /\ camState = CamPlain("Disconnected")
    /\ camera = FALSE
    /\ camPc = "start"
    /\ camCur = NoCmd
    /\ camRes = "none"
    /\ camLost = FALSE
    /\ ttRes = "none"
    /\ ttPub = FALSE
    /\ camera_cmd = <<>>
    /\ camera_state_rx = <<>>
    /\ lagged = FALSE
    /\ imagepath_tx = <<>>
    /\ budget = [cmds |-> MaxCmds, step |-> MaxStepCmds]
    /\ reqId = 0
    /\ run = NoRun
    /\ command = NoCommand
    /\ wire = <<>>
    /\ rx = [p \in Pools |-> <<>>]
    /\ rx_open = [p \in Pools |-> TRUE]
    /\ join_set = [p \in Pools |-> {}]
    /\ poolPc = [p \in Pools |-> "intake"]
    /\ spawned = [p \in Pools |-> <<>>]
    /\ outcome = [p \in Pools |-> <<>>]
    /\ image_tx = <<>>
    /\ copies = <<>>

Init == job \in Jobs /\ Constructed

Next ==
    \/ CamStart \/ CamRecv \/ CamListEnd \/ CamConnectEnd \/ CamCaptureEnd
    \/ CamEmit
    \/ TWStart \/ TWRecv \/ TWConnectEnd \/ TWResetEnd \/ TWWaitCapturing
    \/ TWWaitExit \/ TWMotor \/ TWInner
    \/ UITable \/ UICamera

Spec == Init /\ [][Next]_vars

\* The workers take their steps; the control surface need not send anything.
Fairness ==
    /\ WF_vars(CamStart) /\ WF_vars(CamRecv) /\ WF_vars(CamListEnd)
    /\ WF_vars(CamConnectEnd) /\ WF_vars(CamCaptureEnd) /\ WF_vars(CamEmit)
    /\ WF_vars(TWStart) /\ WF_vars(TWRecv) /\ WF_vars(TWConnectEnd)
    /\ WF_vars(TWResetEnd) /\ WF_vars(TWWaitCapturing) /\ WF_vars(TWWaitExit)
    /\ WF_vars(TWMotor) /\ WF_vars(TWInner)

FairSpec == Spec /\ Fairness

\* The session with any job the Step command can carry.
AnyJobInit == job \in StepJobs /\ Constructed
AnyJobSpec == AnyJobInit /\ [][Next]_vars

\* to_string applied to any command, in any order.
WireSpec == Init /\ [][Render]_vars

\* The image pipeline on its own; the pool's own steps are fair, the senders'
\* and the units' are not.
PoolSpec == Init /\ [][PoolNext]_vars
PoolFairness ==
    \A p \in Pools :
        /\ WF_vars(PoolRecv(p) /\ UNCHANGED <<sessionVars, wireVars>>)
        /\ WF_vars(PoolIntakeEnd(p) /\ UNCHANGED <<sessionVars, wireVars>>)
        /\ WF_vars(PoolJoin(p) /\ UNCHANGED <<sessionVars, wireVars>>)
        /\ WF_vars(PoolReturn(p) /\ UNCHANGED <<sessionVars, wireVars>>)
PoolFairSpec == PoolSpec /\ PoolFairness

\* ------------------------------------------------------------------ claims
Upto(n) == [i \in 1..n |-> i - 1]

\* The run was started by Step and saw no failed capture_step and no pause.
CleanRun == run.firstReq > 0 /\ ~run.fail /\ ~run.paused

\* C1: in a sequence started by Step in which every capture and driver call
\* succeeds and no PauseStepping is handled, the CaptureImage requests of the
\* turntable worker carry seq 0, 1, 2, ... in this order, each once, never more
\* than rotation_steps * tilt_steps of them; the worker stays Stepping until
\* that many steps succeeded and the last of them leaves it Connected.
C1_SeqsInOrder ==
    CleanRun =>
       /\ run.sent = Upto(Len(run.sent))
       /\ Len(run.sent) <= total_steps
       /\ run.ok <= total_steps
       /\ (run.ok = total_steps => run.last = "Connected")
       /\ (run.ok > 0 /\ run.ok < total_steps => run.last = "Stepping")

C1_Witness ==
    /\ CleanRun
    /\ job.rotation_steps = 2 /\ job.tilt_steps = 2
    /\ run.ok = 4
    /\ run.sent = <<0, 1, 2, 3>>
    /\ state_tx = Connected

\* The handles sent for the requests of the current sequence, and whether the
\* camera worker has handled all of these requests.
RunHandles == SelectSeq(imagepath_tx, LAMBDA h : h.req >= run.firstReq)
HandleSeqs == [i \in 1..Len(RunHandles) |-> RunHandles[i].seq]
ServedAll ==
    /\ camPc = "idle"
    /\ \A i \in DOMAIN camera_cmd : camera_cmd[i].req < run.firstReq

\* C2: in a sequence without failure and pause in which the camera served
\* every request with a handle, the handles sent for the sequence carry seq
\* 0, 1, 2, ... in this order; once all rotation_steps * tilt_steps steps
\* succeeded and the camera has handled every request, they are exactly
\* 0 .. rotation_steps * tilt_steps - 1 and the worker was left Connected.
C2_HandlesInOrder ==
    (CleanRun /\ ~run.camBad) =>
       /\ HandleSeqs = Upto(Len(RunHandles))
       /\ Len(RunHandles) <= Len(run.sent)
       /\ (run.ok = total_steps /\ ServedAll) =>
             /\ HandleSeqs = Upto(total_steps)
             /\ run.last = "Connected"

C2_Witness ==
    /\ CleanRun /\ ~run.camBad /\ ServedAll
    /\ job.rotation_steps = 2 /\ job.tilt_steps = 2
    /\ run.ok = 4
    /\ HandleSeqs = <<0, 1, 2, 3>>
    /\ state = Connected

\* One successful step: rotation_step advances by 1 and tilt_step stays, or
\* rotation_step wraps from rotation_steps - 1 to 0 and tilt_step advances by 1.
Advances(s, t) ==
    IF s.rotation_step = job.rotation_steps - 1
    THEN t.rotation_step = 0 /\ t.tilt_step = s.tilt_step + 1
    ELSE t.rotation_step = s.rotation_step + 1 /\ t.tilt_step = s.tilt_step

\* C3: from one published stepping state (Stepping or Paused) to the next, the
\* position is republished unchanged (pause, failed step) or advances by one
\* step, tilt_step advancing by 1 exactly when rotation_step wraps from
\* rotation_steps - 1 to 0; no published stepping state has
\* tilt_step = tilt_steps, the terminal step publishes Connected instead.
C3_TiltOnWrap ==
    /\ [](IsStepping(state_tx) =>
            /\ state_tx.tilt_step < job.tilt_steps
            /\ state_tx.rotation_step < job.rotation_steps)
    /\ [][(IsStepping(state_tx) /\ IsStepping(state_tx')) =>
            \/ SteppingOf(state_tx') = SteppingOf(state_tx)
            \/ Advances(SteppingOf(state_tx), SteppingOf(state_tx'))]_vars

C3_Witness ==
    /\ job.rotation_steps = 2 /\ job.tilt_steps = 2
    /\ state_tx = Stepping(SteppingState(0, 1))
    /\ run.ok = 2

\* C4 (as claimed): a complete failure-free run of an R x T job calls
\* step_tilt exactly T - 1 times, never on the terminal step.
C4_TiltCalls ==
    (run.firstReq > 0 /\ ~run.fail /\ run.ok = total_steps) =>
       run.tilt = job.tilt_steps - 1

\* The turntable worker takes the command at the head of its queue.
Takes(cmd) == cmd_rx # <<>> /\ Head(cmd_rx) = cmd /\ cmd_rx' = Tail(cmd_rx)

\* C5: a PauseStepping found between two steps while the state is Stepping(s)
\* publishes Paused(s) and sends nothing to the camera, s being the position
\* after the last successful step (overall_step(s) = number of successful
\* steps); ResumeStepping handled in Paused(s) sends CaptureImage with
\* seq = overall_step(s); in a sequence without failed step the seqs sent are
\* 0, 1, 2, ... with no gap and no repetition, pauses included.
C5_PauseResume ==
    /\ [][(ttPc = "inner" /\ Takes("PauseStepping")) =>
            /\ state' = Paused(SteppingOf(state))
            /\ state_tx' = state'
            /\ overall_step(SteppingOf(state')) = run.ok
            /\ camera_cmd' = camera_cmd]_vars
    /\ [][(ttPc = "idle" /\ state.kind = "Paused" /\ Takes("ResumeStepping")) =>
            /\ Len(camera_cmd') = Len(camera_cmd) + 1
            /\ camera_cmd'[Len(camera_cmd')].kind = "CaptureImage"
            /\ camera_cmd'[Len(camera_cmd')].seq = overall_step(SteppingOf(state))
            /\ overall_step(SteppingOf(state)) = run.ok]_vars
    /\ []((run.firstReq > 0 /\ ~run.fail) => run.sent = Upto(Len(run.sent)))

C5_Witness ==
    /\ run.paused /\ ~run.fail
    /\ job.rotation_steps = 2 /\ job.tilt_steps = 2
    /\ run.ok = 4
    /\ run.sent = <<0, 1, 2, 3>>
    /\ state = Connected

\* The turntable worker receives the slot at the head of its receiver.
Receives(kinds) ==
    /\ ~lagged
    /\ camera_state_rx # <<>>
    /\ Head(camera_state_rx).kind \in kinds
    /\ camera_state_rx' = Tail(camera_state_rx)

\* capture_step returns without a successful step.
StepFails ==
    /\ ttPc \in {"waitExit", "motor"}
    /\ ttPc' \notin {"waitExit", "motor"}
    /\ run'.ok = run.ok

\* C6 (as claimed): when the camera resolves the capture of step k as Failed,
\* the stepping state stays at overall_step k and no motion call is made; the
\* successful step after ResumeStepping leaves overall_step k + 1.
C6_FailedKeepsStep ==
    /\ [][(ttPc = "waitExit" /\ Receives({"Failed"})) =>
            /\ IsStepping(state')
            /\ overall_step(SteppingOf(state')) = ttCall.seq
            /\ run'.horiz = run.horiz /\ run'.tilt = run.tilt]_vars
    /\ [][(ttPc = "motor" /\ ttCall.ctx = "resume" /\ run'.ok = run.ok + 1
           /\ state'.kind = "Stepping") =>
            overall_step(SteppingOf(state')) = ttCall.seq + 1]_vars

\* C7 (as claimed): a capture failure or a driver motion failure in any step,
\* the first step started by Step included, leaves the worker in Paused(s), s
\* the position before the step.
C7_FailurePauses ==
    [][StepFails => (state' = Paused(ttCall.from) /\ state_tx' = state')]_vars

\* C8 (as claimed): whenever the turntable worker waits on the camera-state
\* broadcast and the workers keep taking their steps, the wait ends.
C8_NoDeadlock ==
    (ttPc \in {"waitCapturing", "waitExit"}) ~> (ttPc \in {"idle", "inner", "motor"})

\* C9 (as claimed): a wait that lost the Capturing slot of its own request
\* still resolves when it receives the Ready or Failed slot of that request.
C9_LagRobust ==
    [][(/\ ttPc = "waitCapturing"
        /\ Receives({"Ready", "Failed"})
        /\ Head(camera_state_rx).req = ttCall.req) =>
          ttPc' # "waitCapturing"]_vars

CamTakes(kind) ==
    /\ camPc = "idle"
    /\ camera_cmd # <<>>
    /\ Head(camera_cmd).kind = kind
    /\ camera_cmd' = Tail(camera_cmd)

\* C11: when the camera worker handles CaptureImage while its state is not
\* Ready or Failed, or while it holds no camera handle, the handling changes
\* nothing: state and handle are unchanged, nothing is published on the state
\* broadcast, no ImageHandle is emitted and the worker is ready for the next
\* command.
C11_CaptureNoOp ==
    [][(/\ CamTakes("CaptureImage")
        /\ (camState.kind \notin {"Ready", "Failed"} \/ ~camera)) =>
          /\ camState' = camState
          /\ camera' = camera
          /\ camera_state_rx' = camera_state_rx
          /\ lagged' = lagged
          /\ imagepath_tx' = imagepath_tx
          /\ camPc' = "idle"]_vars

\* A request of the turntable worker was dropped by a camera worker that held
\* a camera handle but had gone back to CamerasListed.
C11_Witness ==
    /\ run.camBad
    /\ camera
    /\ camState.kind = "CamerasListed"
    /\ camPc = "idle"
    /\ camera_cmd = <<>>
    /\ ttPc = "waitCapturing"
    /\ camera_state_rx = <<>>
    /\ imagepath_tx = <<>>

\* The newest slot of the broadcast.
LastSlot(q) == q[Len(q)]

\* C12: handling CaptureImage{seq} in Ready or Failed with a camera handle
\* publishes Capturing{seq}; the capture then resolves with exactly one
\* published state, Failed if the driver capture failed and Ready otherwise
\* (rename failure included); an ImageHandle is sent only after a capture
\* whose driver call and rename both succeeded, exactly one, carrying seq, and
\* the worker sends it before it takes another command.
C12_CaptureOutcome ==
    /\ [][(CamTakes("CaptureImage") /\ camState.kind \in {"Ready", "Failed"}
           /\ camera) =>
            /\ camState' = Capturing(Head(camera_cmd).seq)
            /\ LastSlot(camera_state_rx').kind = "Capturing"
            /\ LastSlot(camera_state_rx').seq = Head(camera_cmd).seq
            /\ camPc' = "capturing"
            /\ imagepath_tx' = imagepath_tx]_vars
    /\ [][(camPc = "capturing" /\ camPc' # "capturing") =>
            /\ camRes' \in {"ok", "rename", "failed"}
            /\ camState' = CamPlain(IF camRes' = "failed" THEN "Failed" ELSE "Ready")
            /\ LastSlot(camera_state_rx').kind = camState'.kind
            /\ camPc' = (IF camRes' = "ok" THEN "emit" ELSE "idle")
            /\ imagepath_tx' = imagepath_tx]_vars
    /\ [][(imagepath_tx' # imagepath_tx) =>
            /\ camPc = "emit" /\ camRes = "ok" /\ camPc' = "idle"
            /\ camState' = camState /\ camera_state_rx' = camera_state_rx
            /\ Len(imagepath_tx') = Len(imagepath_tx) + 1
            /\ SubSeq(imagepath_tx', 1, Len(imagepath_tx)) = imagepath_tx
            /\ LastSlot(imagepath_tx').seq = camCur.seq]_vars
    /\ [][(camPc = "emit" /\ camPc' # "emit") => imagepath_tx' # imagepath_tx]_vars
    /\ [](camPc = "emit" <=> camRes = "ok")
    /\ [](camPc = "emit" => camState.kind = "Ready")
    /\ [](camPc = "capturing" => camState = Capturing(camCur.seq))

\* A capture ended in Ready without a handle (rename failure) after an earlier
\* capture had sent its handle.
C12_Witness ==
    /\ camRes = "rename"
    /\ camState.kind = "Ready"
    /\ camPc = "idle"
    /\ Len(imagepath_tx) = 1

\* C13 (as claimed): ConnectToCamera handled in CamerasListed, Ready or Failed
\* publishes CameraConnecting and then resolves to Ready with a camera handle
\* or to Disconnected; handled in any other state it causes no transition and
\* publishes nothing.
C13_ConnectGuarded ==
    /\ [][(CamTakes("ConnectToCamera")
           /\ camState.kind \in {"CamerasListed", "Ready", "Failed"}) =>
            /\ camState' = CamPlain("CameraConnecting")
            /\ LastSlot(camera_state_rx').kind = "CameraConnecting"]_vars
    /\ [][(camPc = "connecting" /\ camPc' # "connecting") =>
            /\ camPc' = "idle"
            /\ \/ camState' = CamPlain("Ready") /\ camera'
               \/ camState' = CamPlain("Disconnected") /\ camera' = camera
            /\ LastSlot(camera_state_rx').kind = camState'.kind]_vars
    /\ [][(CamTakes("ConnectToCamera")
           /\ camState.kind \notin {"CamerasListed", "Ready", "Failed"}) =>
            /\ camState' = camState
            /\ camera_state_rx' = camera_state_rx
            /\ camPc' = "idle"]_vars

\* The rows of the transition table of the turntable worker.
IsRow(kind, cmd) ==
    \/ kind = "Uninitialised" /\ cmd = "Connect"
    \/ kind \in {"Connected", "Stepping", "Paused"} /\ cmd = "Disconnect"
    \/ kind = "Connected" /\ cmd \in {"ResetPosition", "Step"}
    \/ kind = "Stepping" /\ cmd = "PauseStepping"
    \/ kind = "Paused" /\ cmd = "ResumeStepping"

\* C14 (as claimed): when handle_command gets a command that is not a row of
\* the transition table for the worker's state, the state and the table handle
\* stay as they are, the unchanged state is what is published and no driver
\* call is started.
C14_NoOpOutsideTable ==
    [][(/\ ttPc = "idle" /\ cmd_rx # <<>> /\ cmd_rx' = Tail(cmd_rx)
        /\ ~IsRow(state.kind, Head(cmd_rx))) =>
          /\ state' = state
          /\ table' = table
          /\ state_tx' = state
          /\ ttPc' = "idle"]_vars

\* C15: Connect handled in Uninitialised publishes Connecting and calls the
\* driver; the handling ends in Connected, with the table handle stored, if and
\* only if connect and configure both succeeded; if either failed it ends in
\* Uninitialised and stores no handle; the end state is published.
C15_Connect ==
    /\ [][(ttPc = "idle" /\ state.kind = "Uninitialised" /\ Takes("Connect")) =>
            /\ state_tx' = Connecting
            /\ ttPc' = "connecting"
            /\ state' = state /\ table' = table]_vars
    /\ [][(ttPc = "connecting" /\ state.kind = "Uninitialised"
           /\ ttPc' # "connecting") =>
            /\ ttRes' \in {"ok", "connect", "configure"}
            /\ (ttRes' = "ok" <=> state' = Connected)
            /\ (ttRes' = "ok" => table')
            /\ (ttRes' # "ok" => state' = Uninitialised /\ table' = table)
            /\ state_tx' = state'
            /\ ttPc' = "idle"]_vars

\* connect succeeded, configure failed: back in Uninitialised without handle.
C15_Witness ==
    /\ ttRes = "configure"
    /\ state = Uninitialised /\ state_tx = Uninitialised
    /\ ~table
    /\ ttPc = "idle"

\* C16 (as claimed): a Disconnect that the worker takes from its queue while
\* it is Connected, Stepping or Paused leaves it Uninitialised, published, with
\* the table handle released.
C16_Disconnect ==
    [][(/\ Takes("Disconnect")
        /\ state.kind \in {"Connected", "Stepping", "Paused"}) =>
          /\ state' = Uninitialised
          /\ state_tx' = Uninitialised
          /\ ~table']_vars

C18_NeverDrops ==
    [][(cmd_rx # <<>> /\ cmd_rx' # cmd_rx /\ Len(cmd_rx') <= Len(cmd_rx)) =>
          /\ cmd_rx' = Tail(cmd_rx)
          /\ (ttPc = "idle" \/ Head(cmd_rx) = "PauseStepping")]_vars

\* C19 (as claimed): no failure of a driver call ends the turntable worker.
C19_NoPanic == ttPc # "panicked"

\* C20: every step of the turntable worker that ends the handling of a
\* command taken by the outer loop (a command without effect included) or ends
\* a capture step, successful or failed, publishes the worker's state; whenever
\* the worker waits for a command, the last published state is its state.
C20_Publishes ==
    /\ [][(/\ ttPc' \in {"idle", "inner"}
           /\ (ttPc' # ttPc \/ Len(cmd_rx') < Len(cmd_rx))) =>
            /\ ttPub'
            /\ state_tx' = state']_vars
    /\ [](ttPc \in {"idle", "inner"} => (ttPub /\ state_tx = state))

\* The worker is back at its queue after Connect, Disconnect and a second
\* Disconnect that found it Uninitialised, the camera never used.
C20_Witness ==
    /\ ttPc = "idle" /\ cmd_rx = <<>>
    /\ budget.cmds = MaxCmds - 3
    /\ camera_cmd = <<>> /\ camState.kind = "Disconnected" /\ Len(camera_state_rx) <= 1
    /\ state = Uninitialised /\ ~table
    /\ ttRes = "none"
    /\ ttPub /\ state_tx = Uninitialised

\* Text helpers for the rendered command.
StartsWith(sq, pre) == Len(sq) >= Len(pre) /\ SubSeq(sq, 1, Len(pre)) = pre
Count(sq, ch) == Cardinality({i \in DOMAIN sq : sq[i] = ch})
IsDigit(ch) == \E d \in 0..9 : Digits[d + 1] = ch
DigitVal(ch) == CHOOSE d \in 0..9 : Digits[d + 1] = ch
Unsigned(t) == IF t # <<>> /\ t[1] = "-" THEN Tail(t) ELSE t

\* The text between the prefix of the command's variant and the final ';'.
ArgText == SubSeq(wire, Len(Prefix(command.variant)) + 1, Len(wire) - 1)

\* [-]d+.dd / [-]d+
TwoDecimals(t) ==
    LET u == Unsigned(t) IN
    /\ Len(u) >= 4
    /\ u[Len(u) - 2] = "."
    /\ \A i \in DOMAIN u : i # Len(u) - 2 => IsDigit(u[i])
PlainInteger(t) ==
    LET u == Unsigned(t) IN Len(u) >= 1 /\ \A i \in DOMAIN u : IsDigit(u[i])

\* The number written by the digits of t, its '.' and sign left out.
RECURSIVE DigitsValue(_)
DigitsValue(t) ==
    IF t = <<>> THEN 0
    ELSE IF IsDigit(t[Len(t)])
         THEN 10 * DigitsValue(SubSeq(t, 1, Len(t) - 1)) + DigitVal(t[Len(t)])
         ELSE DigitsValue(SubSeq(t, 1, Len(t) - 1))

Abs(i) == IF i < 0 THEN 0 - i ELSE i

\* What the claim says of every variant: '+' first, one ';' and it is last, the
\* variant's own prefix and nobody else's; Custom verbatim.
Framing ==
    /\ command.variant \in Variants =>
          /\ wire[1] = "+"
          /\ wire[Len(wire)] = ";" /\ Count(wire, ";") = 1
          /\ StartsWith(wire, Prefix(command.variant))
          /\ \A v \in Variants \ {command.variant} : ~StartsWith(wire, Prefix(v))
    /\ command.variant \in UnitVariants =>
          wire = Prefix(command.variant) \o <<";">>
    /\ command.variant = "Custom" => wire = command.arg

\* C21 (as claimed): every non-Custom command is rendered in the wire grammar
\* and every numeric argument is written with exactly two decimals.
C21_TwoDecimalsAlways ==
    /\ Framing
    /\ command.variant \in F32Variants \cup {"ContinuousRotation"} =>
          TwoDecimals(ArgText)

\* C21 (amended): every non-Custom command starts with '+', ends with its only
\* ';' and carries the prefix of its variant, which no other variant shares;
\* a finite f32 argument is written with exactly two decimals, rounded to the
\* nearest hundredth, with '-' for a set sign bit; a non-finite f32 is written
\* inf, -inf or NaN and the i8 of ContinuousRotation as a plain integer;
\* Custom(s) is rendered as s.
C21_WireGrammar ==
    /\ Framing
    /\ (command.variant \in F32Variants /\ command.arg.kind = "finite") =>
          /\ TwoDecimals(ArgText)
          /\ (ArgText[1] = "-") <=> command.arg.neg
          /\ 2 * Abs(DigitsValue(ArgText) * Den - 100 * command.arg.mag) <= Den
    /\ (command.variant \in F32Variants /\ command.arg.kind # "finite") =>
          Unsigned(ArgText) \in {<<"i", "n", "f">>, <<"N", "a", "N">>}
    /\ command.variant = "ContinuousRotation" =>
          /\ PlainInteger(ArgText)
          /\ (ArgText[1] = "-") <=> command.arg.neg
          /\ DigitsValue(ArgText) = command.arg.mag

\* RotateBy(-30.5) was rendered "+CT,TURNANGLE=-30.50;".
C21_Witness ==
    /\ command = Command("RotateBy", F32(TRUE, 7808))
    /\ wire = <<"+", "C", "T", ",", "T", "U", "R", "N", "A", "N", "G", "L", "E", "=",
                "-", "3", "0", ".", "5", "0", ";">>


\* The number of indices of a sequence whose element satisfies a test is
\* written Cardinality({k \in DOMAIN q : ...}) below.
Loader == "image_loader"
Exporter == "image_exporter"

\* C22: the decode pool consumes every ImageHandle exactly once, by taking
\* the head of its intake channel and spawning one unit for it; the Previews
\* carrying a handle's seq and path are exactly as many as the units of that
\* handle that ended Ok, so each consumed handle gives at most one Preview and
\* a failed decode gives none; a unit that fails or panics changes neither
\* the pool's position, nor its intake, nor any other unit, nor the Previews
\* already sent, nor the state of the turntable or camera worker.
C22_PreviewsMatch ==
    \A h \in ImageHandles :
        Cardinality({k \in DOMAIN image_tx :
                        image_tx[k] = [seq |-> h.seq, path |-> h.path]})
        = Cardinality({i \in DOMAIN spawned[Loader] :
                        spawned[Loader][i] = h /\ outcome[Loader][i] = "ok"})
C22_ConsumesOnce ==
    (spawned'[Loader] # spawned[Loader] \/ Len(rx'[Loader]) < Len(rx[Loader]))
        => /\ rx[Loader] # <<>>
           /\ rx'[Loader] = Tail(rx[Loader])
           /\ spawned'[Loader] = Append(spawned[Loader], Head(rx[Loader]))
           /\ outcome'[Loader] = Append(outcome[Loader], "running")
C22_FailureIsolated ==
    \A i \in DOMAIN outcome[Loader] :
        (outcome[Loader][i] = "running"
          /\ outcome'[Loader][i] \in {"failed", "panicked"})
        => /\ image_tx' = image_tx
           /\ UNCHANGED <<rx, rx_open, poolPc, spawned, join_set>>
           /\ \A j \in DOMAIN outcome[Loader] \ {i} :
                  outcome'[Loader][j] = outcome[Loader][j]
           /\ UNCHANGED <<ttVars, camVars>>
C22_DecodePool ==
    /\ []C22_PreviewsMatch
    /\ [][C22_ConsumesOnce /\ C22_FailureIsolated]_vars
C22_Witness ==
    /\ poolPc[Loader] = "returned"
    /\ spawned[Loader] = <<[seq |-> 0, path |-> "a.jpg"], [seq |-> 1, path |-> "b.jpg"]>>
    /\ outcome[Loader] = <<"failed", "ok">>
    /\ image_tx = <<[seq |-> 1, path |-> "b.jpg"]>>

\* "image_<seq>.jpg": the stem image_, the decimal digits of seq without
\* leading zeros, the extension .jpg.
IsImageFile(file, seq) ==
    LET stem == <<"i", "m", "a", "g", "e", "_">>
        ext == <<".", "j", "p", "g">>
        num == SubSeq(file, Len(stem) + 1, Len(file) - Len(ext))
    IN  /\ Len(file) > Len(stem) + Len(ext)
        /\ StartsWith(file, stem)
        /\ SubSeq(file, Len(file) - Len(ext) + 1, Len(file)) = ext
        /\ \A k \in DOMAIN num : IsDigit(num[k])
        /\ (Len(num) > 1 => num[1] # "0")
        /\ DigitsValue(num) = seq

\* C23: every ExportJob the export pool received gets one unit, and every
\* unit that ended made exactly one copy attempt, from the job's image_path
\* to output_directory/image_<seq>.jpg; no other copy is attempted; a unit
\* whose copy fails changes neither the pool's position, nor its intake, nor
\* any other unit, nor the copies already attempted.
C23_CopiesMatch ==
    /\ \A j \in ExportJobs :
          Cardinality({k \in DOMAIN copies :
                          /\ copies[k].from = j.image_path
                          /\ copies[k].to.dir = j.output_directory
                          /\ IsImageFile(copies[k].to.file, j.seq)})
          = Cardinality({i \in DOMAIN spawned[Exporter] :
                          /\ spawned[Exporter][i] = j
                          /\ outcome[Exporter][i] # "running"})
    /\ Len(copies)
          = Cardinality({i \in DOMAIN outcome[Exporter] :
                          outcome[Exporter][i] # "running"})
C23_ReceivesOnce ==
    (spawned'[Exporter] # spawned[Exporter] \/ Len(rx'[Exporter]) < Len(rx[Exporter]))
        => /\ rx[Exporter] # <<>>
           /\ rx'[Exporter] = Tail(rx[Exporter])
           /\ spawned'[Exporter] = Append(spawned[Exporter], Head(rx[Exporter]))
           /\ outcome'[Exporter] = Append(outcome[Exporter], "running")
C23_FailureIsolated ==
    \A i \in DOMAIN outcome[Exporter] :
        (outcome[Exporter][i] = "running" /\ outcome'[Exporter][i] = "failed")
        => /\ SubSeq(copies', 1, Len(copies)) = copies
           /\ ~copies'[Len(copies')].ok
           /\ UNCHANGED <<rx, rx_open, poolPc, spawned, join_set>>
           /\ \A j \in DOMAIN outcome[Exporter] \ {i} :
                  outcome'[Exporter][j] = outcome[Exporter][j]
C23_ExportPool ==
    /\ []C23_CopiesMatch
    /\ [][C23_ReceivesOnce /\ C23_FailureIsolated]_vars
\* The copy of the first job failed, and the second job was still copied to
\* out/image_1.jpg before the pool returned.
C23_Witness ==
    /\ poolPc[Exporter] = "returned"
    /\ Len(spawned[Exporter]) = 2
    /\ spawned[Exporter][2] = [image_path |-> "b.jpg", seq |-> 1, output_directory |-> "out"]
    /\ Len(copies) = 2
    /\ ~copies[1].ok
    /\ copies[1].from = spawned[Exporter][1].image_path
    /\ copies[2] = [from |-> "b.jpg",
                    to |-> [dir |-> "out",
                            file |-> <<"i", "m", "a", "g", "e", "_", "1", ".", "j", "p", "g">>],
                    ok |-> TRUE]

\* C24: a pool that returned has a closed and empty intake channel and no
\* unit that is still running or not yet joined, so it never returns while a
\* unit it spawned runs; and from any state where its channel is closed and
\* empty and every unit it spawned has ended, it eventually returns.
C24_AllFinished(p) ==
    /\ ~rx_open[p]
    /\ rx[p] = <<>>
    /\ \A i \in DOMAIN outcome[p] : outcome[p][i] # "running"
C24_Terminates ==
    \A p \in Pools :
        /\ [](poolPc[p] = "returned" => C24_AllFinished(p) /\ join_set[p] = {})
        /\ (C24_AllFinished(p) ~> poolPc[p] = "returned")
\* Both pools returned, each after its one unit ended.
C24_Witness ==
    \A p \in Pools :
        /\ poolPc[p] = "returned"
        /\ Len(spawned[p]) = 1
        /\ outcome[p][1] = "failed"

\* C25: retries do not advance position: whenever the worker is between two
\* steps of a sequence, the step_horizontal calls that succeeded in the
\* sequence are as many as the overall_step of its stepping state, and when
\* the terminal step has just completed they are as many as total_steps.
C25_RetriesDoNotAdvance ==
    /\ (run.active /\ ttPc \in {"idle", "inner"} /\ IsStepping(state))
          => run.horiz = overall_step(SteppingOf(state))
    /\ (run.ok > 0 /\ run.last = "Connected") => run.horiz = total_steps

\* C26: once sync_take_photo has observed its own Capturing, its wait ends
\* only by receiving Ready or Failed: a lag notification and every other
\* state leave it waiting.
C26_ResolvesOnlyOnReadyFailed ==
    [][(ttPc = "waitExit" /\ ttPc' # "waitExit")
          => /\ RecvKind = "slot"
             /\ Head(camera_state_rx).kind \in {"Ready", "Failed"}]_vars

\* C27: every stepping state the worker publishes, inside Stepping or Paused,
\* has 0 <= rotation_step < rotation_steps and 0 <= tilt_step < tilt_steps,
\* its overall_step is below total_steps and its progress, the quotient of
\* overall_step + 1 and total_steps, is above 0 and at most 1.
C27_PublishedInRange ==
    IsStepping(state_tx) =>
        LET s == SteppingOf(state_tx) IN
        /\ 0 <= s.rotation_step /\ s.rotation_step < job.rotation_steps
        /\ 0 <= s.tilt_step /\ s.tilt_step < job.tilt_steps
        /\ overall_step(s) < total_steps
        /\ progress(s).den > 0
        /\ 0 < progress(s).num
        /\ progress(s).num <= progress(s).den
\* The last position of a 2 x 2 job is published, with progress 4/4.
C27_Witness ==
    /\ job = [rotation_steps |-> 2, tilt_steps |-> 2]
    /\ state_tx = Paused(SteppingState(1, 1))
    /\ progress(SteppingOf(state_tx)) = [num |-> 4, den |-> 4]
    /\ run.ok = 3

\* A capture_step returned; it returned Ok; the state it started from is the
\* last of the job.
StepEnds == ttCall # NoCall /\ ttCall' = NoCall
StepOk == StepEnds /\ ttPc = "motor" /\ ttRes' = "ok"
Terminal(s) ==
    s.tilt_step = job.tilt_steps - 1 /\ s.rotation_step = job.rotation_steps - 1

\* C28: within one sequence a successful capture_step from a non-terminal
\* state s leaves the worker in Stepping(s') with overall_step(s') =
\* overall_step(s) + 1, a failed capture_step leaves overall_step as it was,
\* overall_step never decreases, and the sequence returns to Connected exactly
\* when a capture_step from the terminal state succeeded.
C28_StepByStep ==
    [][/\ (StepOk /\ ~Terminal(ttCall.from)) =>
              /\ state'.kind = "Stepping"
              /\ overall_step(SteppingOf(state')) = overall_step(ttCall.from) + 1
       /\ (StepEnds /\ ~StepOk /\ IsStepping(state')) =>
              overall_step(SteppingOf(state')) = overall_step(ttCall.from)
       /\ (run.active /\ IsStepping(state) /\ IsStepping(state')) =>
              overall_step(SteppingOf(state')) >= overall_step(SteppingOf(state))
       /\ (run.active /\ ~run.active' /\ state'.kind = "Connected")
              <=> (StepOk /\ Terminal(ttCall.from))]_vars

\* C29: sync_take_photo leaves its first wait only on a Capturing slot that
\* carries the requested seq and was published after its own CaptureImage was
\* sent.
C29_FreshStart ==
    [][(ttPc = "waitCapturing" /\ ttPc' = "waitExit")
          => /\ RecvKind = "slot"
             /\ Head(camera_state_rx).kind = "Capturing"
             /\ Head(camera_state_rx).seq = ttCall.seq
             /\ Head(camera_state_rx).at >= ttCall.req]_vars

\* C30: while a step is in progress the worker takes nothing from its command
\* queue and its state becomes Paused only by the failure of that step, so a
\* PauseStepping queued meanwhile does not interrupt it; and when the worker,
\* back between two steps, finds PauseStepping at the head of the queue, it
\* publishes Paused with the position the step left and sends no CaptureImage.
C30_PauseAtBoundary ==
    [][/\ ttCall # NoCall =>
              /\ cmd_rx # <<>> => (cmd_rx' # <<>> /\ Head(cmd_rx') = Head(cmd_rx))
              /\ Len(cmd_rx') >= Len(cmd_rx)
              /\ (state'.kind = "Paused" /\ state.kind # "Paused")
                    => (StepEnds /\ ~StepOk)
              /\ StepOk => state' = capture_step_ok(ttCall.from)
       /\ (ttPc = "inner" /\ ttPc' # "inner"
             /\ cmd_rx # <<>> /\ Head(cmd_rx) = "PauseStepping") =>
              /\ state_tx' = Paused(SteppingOf(state))
              /\ ttPub'
              /\ camera_cmd' = camera_cmd
              /\ reqId' = reqId]_vars
\* PauseStepping was queued while step 1 of a 2 x 2 job was in progress; the
\* step completed, and Paused is published at the position of step 2, for
\* which no CaptureImage was sent.
C30_Witness ==
    /\ job = [rotation_steps |-> 2, tilt_steps |-> 2]
    /\ run.midStep /\ run.paused /\ ~run.fail
    /\ run.ok = 2
    /\ run.sent = <<0, 1>>
    /\ state_tx = Paused(SteppingState(0, 1))

\* C31: ResumeStepping handled in Paused(s) with s the last position of the
\* job sends one CaptureImage, with seq = total_steps - 1, and no other
\* before its capture_step returned; if the capture and the motor advance
\* succeed the worker ends in Connected, published, and otherwise its state
\* remains Paused(s).
C31_ResumeAtEnd ==
    [][/\ (/\ ttPc = "idle" /\ cmd_rx # <<>> /\ cmd_rx' = Tail(cmd_rx)
           /\ Head(cmd_rx) = "ResumeStepping"
           /\ state.kind = "Paused" /\ Terminal(SteppingOf(state))) =>
              /\ Len(camera_cmd') = Len(camera_cmd) + 1
              /\ camera_cmd'[Len(camera_cmd')].kind = "CaptureImage"
              /\ camera_cmd'[Len(camera_cmd')].seq = total_steps - 1
              /\ ttCall'.ctx = "resume" /\ ttCall'.from = SteppingOf(state)
              /\ state' = state
       /\ (ttCall.ctx = "resume" /\ Terminal(ttCall.from)) =>
              /\ reqId' = reqId
              /\ \A i \in DOMAIN camera_cmd' :
                    i > Len(camera_cmd) => camera_cmd'[i].req = 0
              /\ StepOk => (state' = Connected /\ state_tx' = Connected)
              /\ (StepEnds /\ ~StepOk) =>
                    (state' = Paused(ttCall.from) /\ state_tx' = state')
              /\ ~StepEnds => state' = Paused(ttCall.from)]_vars
\* Step 1 of a 2 x 1 job failed, the resume captured seq 1 again and the run
\* ended in Connected.
C31_Witness ==
    /\ job = [rotation_steps |-> 2, tilt_steps |-> 1]
    /\ run.sent = <<0, 1, 1>>
    /\ run.ok = 2
    /\ run.last = "Connected"
    /\ state_tx = Connected
    /\ ttRes = "ok"

\* The worker dequeues ResetPosition with its state Connected.
ResetInConnected ==
    /\ ttPc = "idle" /\ cmd_rx # <<>> /\ cmd_rx' = Tail(cmd_rx)
    /\ Head(cmd_rx) = "ResetPosition"
    /\ state.kind = "Connected"

\* C32: ResetPosition handled in Connected publishes
\* ReturningToResetPosition and calls the driver's reset_pos; when that one
\* call is over the worker publishes Connected; no CaptureImage is sent by
\* the worker meanwhile.
C32_ResetInConnected ==
    [][/\ ResetInConnected =>
              /\ state_tx' = ReturningToResetPosition
              /\ ttPc' = "resetting"
              /\ camera_cmd' = camera_cmd
       /\ ttPc = "resetting" =>
              /\ reqId' = reqId
              /\ ttPc' # "resetting" =>
                    /\ ttRes' = "ok"
                    /\ ttPc' = "idle"
                    /\ state' = Connected /\ state_tx' = Connected]_vars

\* C33: while the worker's state is Paused it sends a CaptureImage only by
\* handling ResumeStepping, and a capture_step with its step_horizontal and
\* step_tilt calls runs only as part of that handling: nothing is retried
\* unasked.
C33_NoAutoRetry ==
    /\ [](state.kind = "Paused" =>
            /\ ttPc # "inner"
            /\ ttPc \in {"waitCapturing", "waitExit", "motor"} =>
                  ttCall.ctx = "resume")
    /\ [][state.kind = "Paused" =>
            /\ reqId' # reqId =>
                  /\ ttPc = "idle" /\ cmd_rx # <<>> /\ cmd_rx' = Tail(cmd_rx)
                  /\ Head(cmd_rx) = "ResumeStepping"
            /\ (run'.horiz # run.horiz \/ run'.tilt # run.tilt) =>
                  (ttPc = "motor" /\ ttCall.ctx = "resume")]_vars
\* Step 1 failed; the worker is Paused at its command queue with nothing
\* queued for it or for the camera, and two captures were requested in all.
C33_Witness ==
    /\ state = Paused(SteppingState(1, 0))
    /\ state_tx = state
    /\ ttPc = "idle" /\ cmd_rx = <<>>
    /\ camera_cmd = <<>> /\ camPc = "idle"
    /\ run.fail /\ ~run.paused
    /\ run.sent = <<0, 1>>
    /\ reqId = 2

\* The camera worker has taken the CaptureImage of the worker's request req
\* from its queue and resolved it.
Processed(req) ==
    /\ \A i \in DOMAIN camera_cmd : camera_cmd[i].req # req
    /\ ~(camPc = "capturing" /\ camCur.req = req)

\* C34: when the turntable worker is at the motor advance of a step, the
\* camera worker has finished the capture of the CaptureImage the turntable
\* worker sent for that step.
C34_MotorAfterOwnCapture ==
    ttPc = "motor" => Processed(ttCall.req)

\* C35: in a sequence, with no CaptureImage sent by the control surface, no
\* two ImageHandles sent for the sequence carry the same seq.
C35_DistinctSeqs ==
    ~run.manual =>
        \A i, j \in DOMAIN RunHandles :
            RunHandles[i].seq = RunHandles[j].seq => i = j

\* C36: a worker whose state is Connected, Stepping or Paused, or that has
\* published ReturningToResetPosition, holds a table handle, and a worker
\* whose state is Uninitialised holds none.
C36_TableHeld ==
    /\ state.kind \in {"Connected", "Stepping", "Paused"} => table
    /\ state_tx.kind = "ReturningToResetPosition" => table
    /\ state.kind = "Uninitialised" => ~table

\* C37: when the camera worker is at its command queue its state is
\* Disconnected, CamerasListed, Ready or Failed; GettingCameraList,
\* CameraConnecting and Capturing are its state exactly while it handles
\* ListCameras, ConnectToCamera and an accepted CaptureImage; Capturing is
\* published only from Ready or Failed by a worker at its queue, and the
\* state published after Capturing is Ready or Failed, so at most one capture
\* is in flight.
C37_AtQueue ==
    /\ camPc \in {"start", "idle"} =>
          camState.kind \in {"Disconnected", "CamerasListed", "Ready", "Failed"}
    /\ camState.kind = "GettingCameraList" <=> camPc = "listing"
    /\ camState.kind = "CameraConnecting" <=> camPc = "connecting"
    /\ camState.kind = "Capturing" <=> camPc = "capturing"
    /\ camPc = "emit" => camState.kind = "Ready"
C37_OneInFlight ==
    /\ (camState.kind = "Capturing" /\ camState' # camState) =>
          /\ camState'.kind \in {"Ready", "Failed"}
          /\ LastSlot(camera_state_rx').kind = camState'.kind
    /\ (camState'.kind = "Capturing" /\ camState' # camState) =>
          /\ camPc = "idle"
          /\ camState.kind \in {"Ready", "Failed"}
          /\ LastSlot(camera_state_rx') = Slot(camState', Head(camera_cmd).req)
C37_OneCapture == []C37_AtQueue /\ [][C37_OneInFlight]_vars
\* A capture just resolved Failed, and the next CaptureImage waits in the
\* queue of a camera worker whose state is Failed.
C37_Witness ==
    /\ camPc = "idle"
    /\ camState.kind = "Failed"
    /\ camRes = "failed"
    /\ Len(camera_state_rx) = 2
    /\ camera_state_rx[1].kind = "Capturing"
    /\ camera_state_rx[2].kind = "Failed"
    /\ camera_cmd # <<>>
    /\ Head(camera_cmd).kind = "CaptureImage"

\* The camera worker resolved the capture of the worker's request req with
\* Ready and a file to send: it is about to send the handle or has sent it.
CaptureSucceeded(req) ==
    \/ camPc = "emit" /\ camCur.req = req
    \/ \E i \in DOMAIN imagepath_tx : imagepath_tx[i].req = req
HandleSent(req, seq) ==
    \E i \in DOMAIN imagepath_tx :
        imagepath_tx[i].req = req /\ imagepath_tx[i].seq = seq

\* C38: when the turntable worker is at the motor advance of a step whose
\* capture succeeded, the ImageHandle of that capture has been sent; and when
\* Connected is published at the end of a run without failure, pause or a
\* capture left without handle, rotation_steps * tilt_steps handles have been
\* sent for the run.
C38_HandleBeforeMotor ==
    /\ (ttPc = "motor" /\ CaptureSucceeded(ttCall.req))
          => HandleSent(ttCall.req, ttCall.seq)
    /\ (CleanRun /\ ~run.camBad /\ run.ok = total_steps /\ state_tx = Connected)
          => Len(RunHandles) = total_steps

\* C39: once a ConnectToCamera has succeeded and none has failed since, the
\* camera worker accepts the CaptureImage it dequeues next, whatever other
\* commands (ListCameras among them) it has handled in between.
C39_StaysAble ==
    (camera /\ ~camLost /\ camPc = "idle") => CanCapture

\* C40: the step that sends the first CaptureImage of a run started by Step
\* comes after a step_tilt call of that run (the move to the lower tilt
\* position): the run's count of step_tilt calls is at least 1 by then.
C40_ZeroedBeforeFirstCapture ==
    [][(run'.active /\ reqId' # reqId /\ reqId' = run'.firstReq)
          => run'.tilt >= 1]_vars
====
